---- MODULE Spec2Model ----
(***************************************************************************)
(* Model of the typhoon safety analyzer's response extractor               *)
(* (TyphoonSafetyAnalyzer._parse_response, src/engine/analyzer.py) and     *)
(* schema normalizer (OutputValidator, src/engine/validators/              *)
(* output_validator.py).                                                   *)
(*                                                                         *)
(* Python values are tagged records:                                       *)
(*   None           [t |-> "null"]                                         *)
(*   True / False   [t |-> "bool",  b  |-> TRUE]                           *)
(*   int n          [t |-> "int",   n  |-> n]                              *)
(*   float m/10     [t |-> "float", m  |-> m]     (fixed point, tenths)    *)
(*   str            [t |-> "str",   s  |-> "..."]                          *)
(*   list           [t |-> "list",  xs |-> <<...>>]                        *)
(*   dict           [t |-> "dict",  kv |-> function from keys to values]   *)
(* A call either returns a value or raises: Returned(v) / Raised(exc).     *)
(***************************************************************************)
EXTENDS Integers, Sequences, FiniteSets, TLC

VARIABLES pc, response_text, path, analysis_result, result, again

vars == <<pc, response_text, path, analysis_result, result, again>>

-----------------------------------------------------------------------------
(* Bounds of the model *)

\* longest category sequence drawn for hazards_by_category
MaxEntries == 2
\* longest response text drawn for _parse_response
MaxLen == 4
\* largest count drawn for a risk_summary field
MaxCount == 2

-----------------------------------------------------------------------------
(* Python values *)

None == [t |-> "null"]
B(b) == [t |-> "bool", b |-> b]
I(n) == [t |-> "int", n |-> n]
F(m) == [t |-> "float", m |-> m]
S(s) == [t |-> "str", s |-> s]
L(xs) == [t |-> "list", xs |-> xs]
D(kv) == [t |-> "dict", kv |-> kv]

EmptyKv == [k \in {} |-> None]

Returned(v) == [raised |-> FALSE, value |-> v]
Raised(e) == [raised |-> TRUE, exc |-> e]

\* key in d
Has(kv, k) == k \in DOMAIN kv
\* d.get(k, default)
Get(kv, k, default) == IF k \in DOMAIN kv THEN kv[k] ELSE default
\* d[k] = v
Put(kv, k, v) == [x \in (DOMAIN kv) \cup {k} |-> IF x = k THEN v ELSE kv[x]]

\* isinstance(v, (int, float)): bool is a subclass of int
IsIntOrFloat(v) == v.t \in {"int", "float", "bool"}
\* isinstance(v, int): bool is a subclass of int
IsInt(v) == v.t \in {"int", "bool"}
\* the number a numeric value compares as, in tenths (True is 1, False is 0)
Tenths(v) ==
    CASE v.t = "int" -> 10 * v.n
      [] v.t = "float" -> v.m
      [] v.t = "bool" -> IF v.b THEN 10 ELSE 0

RECURSIVE NatStr(_)
NatStr(n) ==
    IF n < 10
    THEN <<"0", "1", "2", "3", "4", "5", "6", "7", "8", "9">>[n + 1]
    ELSE NatStr(n \div 10) \o NatStr(n % 10)

IntStr(n) == IF n < 0 THEN "-" \o NatStr(-n) ELSE NatStr(n)

FloatStr(m) ==
    LET a == IF m < 0 THEN -m ELSE m
    IN (IF m < 0 THEN "-" ELSE "") \o NatStr(a \div 10) \o "." \o NatStr(a % 10)

\* repr(v) and str(v) of the values the model draws; a dict is drawn in the
\* formatted positions only when empty
RECURSIVE Repr(_), JoinRepr(_)
JoinRepr(xs) ==
    IF Len(xs) = 0 THEN ""
    ELSE IF Len(xs) = 1 THEN Repr(xs[1])
    ELSE Repr(xs[1]) \o ", " \o JoinRepr(Tail(xs))

Repr(v) ==
    CASE v.t = "null" -> "None"
      [] v.t = "bool" -> IF v.b THEN "True" ELSE "False"
      [] v.t = "int" -> IntStr(v.n)
      [] v.t = "float" -> FloatStr(v.m)
      [] v.t = "str" -> "'" \o v.s \o "'"
      [] v.t = "list" -> "[" \o JoinRepr(v.xs) \o "]"
      [] v.t = "dict" -> "{}"

\* f"{v}"
Format(v) == IF v.t = "str" THEN v.s ELSE Repr(v)

-----------------------------------------------------------------------------
(* OutputValidator *)

required_fields ==
    <<"overall_risk_level", "hazards_by_category", "risk_summary",
      "urgent_actions", "summary", "confidence_score">>

valid_risk_levels ==
    {S("low"), S("medium"), S("high"), S("critical"), S("unknown")}

hazard_categories ==
    <<"flying_objects", "structural_damage", "elevated_objects", "tree_hazards">>

_get_default_risk_summary ==
    D([critical_count |-> I(0), high_count |-> I(0), medium_count |-> I(0),
       low_count |-> I(0), total_hazards |-> I(0)])

\* mutation: the defaults table has no entry for confidence_score, so
\* defaults.get(field) answers None for it
DefaultsWithoutConfidence(field) ==
    CASE field = "overall_risk_level" -> S("unknown")
      [] field = "hazards_by_category" -> D(EmptyKv)
      [] field = "risk_summary" -> _get_default_risk_summary
      [] field = "summary" -> S("Analysis incomplete")
      [] field = "urgent_actions" -> L(<<>>)
      [] OTHER -> None

_get_default_value(field) ==
    CASE field = "overall_risk_level" -> S("unknown")
      [] field = "hazards_by_category" -> D(EmptyKv)
      [] field = "risk_summary" -> _get_default_risk_summary
      [] field = "summary" -> S("Analysis incomplete")
      [] field = "urgent_actions" -> L(<<>>)
      [] field = "confidence_score" -> F(0)
      [] OTHER -> None

\* mutation: the value is passed through whenever the key is present
RiskFieldPassThrough(obj, key, allowed) == Get(obj.kv, key, S("unknown"))

\* obj.get(key, 'unknown') if obj.get(key) in allowed else 'unknown'
RiskField(obj, key, allowed) ==
    IF Get(obj.kv, key, None) \in allowed
    THEN Get(obj.kv, key, S("unknown"))
    ELSE S("unknown")

movement_levels == {S("high"), S("medium"), S("low")}

_validate_flying_object(obj) ==
    IF obj.t # "dict" THEN Raised("AttributeError")
    ELSE Returned(D(
        [item |-> Get(obj.kv, "item", S("Unknown object")),
         description |-> Get(obj.kv, "description", S("No description")),
         movement_risk |-> RiskField(obj, "movement_risk", movement_levels),
         impact_severity |-> RiskField(obj, "impact_severity", valid_risk_levels),
         overall_risk |-> RiskField(obj, "overall_risk", valid_risk_levels),
         location |-> Get(obj.kv, "location", S("Location not specified")),
         recommendation |-> Get(obj.kv, "recommendation", S("No recommendation"))]))

_validate_structural_damage(obj) ==
    IF obj.t # "dict" THEN Raised("AttributeError")
    ELSE Returned(D(
        [item |-> Get(obj.kv, "item", S("Unknown structure")),
         description |-> Get(obj.kv, "description", S("No description")),
         risk_level |-> RiskField(obj, "risk_level", valid_risk_levels),
         location |-> Get(obj.kv, "location", S("Location not specified")),
         recommendation |-> Get(obj.kv, "recommendation", S("No recommendation"))]))

_validate_elevated_object(obj) ==
    IF obj.t # "dict" THEN Raised("AttributeError")
    ELSE Returned(D(
        [item |-> Get(obj.kv, "item", S("Unknown object")),
         description |-> Get(obj.kv, "description", S("No description")),
         fall_risk |-> RiskField(obj, "fall_risk", movement_levels),
         impact_severity |-> RiskField(obj, "impact_severity", valid_risk_levels),
         overall_risk |-> RiskField(obj, "overall_risk", valid_risk_levels),
         location |-> Get(obj.kv, "location", S("Location not specified")),
         recommendation |-> Get(obj.kv, "recommendation", S("No recommendation"))]))

_validate_tree_hazard(obj) ==
    IF obj.t # "dict" THEN Raised("AttributeError")
    ELSE Returned(D(
        [description |-> Get(obj.kv, "description", S("No description")),
         risk_level |-> RiskField(obj, "risk_level", valid_risk_levels),
         location |-> Get(obj.kv, "location", S("Location not specified")),
         recommendation |-> Get(obj.kv, "recommendation", S("No recommendation"))]))

\* mutation: the elevated_objects branch calls the flying-object validator
ValidateEntryCopyPaste(category, item) ==
    CASE category = "flying_objects" -> _validate_flying_object(item)
      [] category = "structural_damage" -> _validate_structural_damage(item)
      [] category = "elevated_objects" -> _validate_flying_object(item)
      [] category = "tree_hazards" -> _validate_tree_hazard(item)

\* the per-category dispatch of _validate_hazard_categories
ValidateEntry(category, item) ==
    CASE category = "flying_objects" -> _validate_flying_object(item)
      [] category = "structural_damage" -> _validate_structural_damage(item)
      [] category = "elevated_objects" -> _validate_elevated_object(item)
      [] category = "tree_hazards" -> _validate_tree_hazard(item)

_validate_hazard_categories(hazards) ==
    LET cats == {hazard_categories[i] : i \in 1..Len(hazard_categories)}
        data(c) ==
            LET category_data == Get(hazards.kv, c, L(<<>>))
            IN IF category_data.t # "list" THEN <<>> ELSE category_data.xs
        done(c) == [i \in 1..Len(data(c)) |-> ValidateEntry(c, data(c)[i])]
    IN IF \E c \in cats : \E i \in 1..Len(data(c)) : done(c)[i].raised
       THEN Raised("AttributeError")
       ELSE Returned(D([c \in cats |->
                L([i \in 1..Len(data(c)) |-> done(c)[i].value])]))

summary_keys ==
    {"critical_count", "high_count", "medium_count", "low_count", "total_hazards"}

\* value if isinstance(value, int) and value >= 0 else 0
CountOrZero(value) ==
    IF IsInt(value) /\ Tenths(value) >= 0 THEN value ELSE I(0)

_validate_risk_summary(summary) ==
    D([key \in summary_keys |-> CountOrZero(Get(summary.kv, key, I(0)))])

(* The steps of validate work on [kv, errors, own]: the dict `validated`,    *)
(* the list `validation_errors`, and the keys of `validated` whose value is  *)
(* an object this call created.  validated is a shallow copy (line 29), so   *)
(* every other key still refers to the very object the argument refers to.   *)

\* validated[k] = v, v an object made by this call
Assign(st, k, v) ==
    [kv |-> Put(st.kv, k, v), errors |-> st.errors, own |-> st.own \cup {k}]

\* validation_errors.append(msg)
Record(st, msg) ==
    [kv |-> st.kv, errors |-> Append(st.errors, msg), own |-> st.own]

\* lines 33-36: the required-field loop over a dict, from field i on
RECURSIVE CheckRequired(_, _)
CheckRequired(st, i) ==
    IF i > Len(required_fields) THEN st
    ELSE LET field == required_fields[i]
         IN IF ~Has(st.kv, field)
            THEN CheckRequired(
                     Assign(Record(st, "Missing required field: " \o field),
                            field, _get_default_value(field)),
                     i + 1)
            ELSE CheckRequired(st, i + 1)

\* lines 38-41
CheckRiskLevel(st) ==
    LET level == Get(st.kv, "overall_risk_level", None)
    IN IF level \notin valid_risk_levels
       THEN Assign(Record(st, "Invalid overall_risk_level: " \o Format(level)),
                   "overall_risk_level", S("unknown"))
       ELSE st

\* lines 43-50 as they would be if a correction inside the mapping counted
\* as an error
CheckHazardsStrict(st) ==
    LET hazards == Get(st.kv, "hazards_by_category", None)
    IN IF hazards.t # "dict"
       THEN Returned(Assign(Record(st, "hazards_by_category must be a dictionary"),
                            "hazards_by_category", D(EmptyKv)))
       ELSE LET r == _validate_hazard_categories(hazards)
            IN IF r.raised THEN r
               ELSE IF r.value # hazards
               THEN Returned(Assign(Record(st, "hazards_by_category was corrected"),
                                    "hazards_by_category", r.value))
               ELSE Returned(Assign(st, "hazards_by_category", r.value))

\* lines 43-50; the nested call may raise
CheckHazards(st) ==
    LET hazards == Get(st.kv, "hazards_by_category", None)
    IN IF hazards.t # "dict"
       THEN Returned(Assign(Record(st, "hazards_by_category must be a dictionary"),
                            "hazards_by_category", D(EmptyKv)))
       ELSE LET r == _validate_hazard_categories(hazards)
            IN IF r.raised THEN r
               ELSE Returned(Assign(st, "hazards_by_category", r.value))

\* lines 52-59
CheckRiskSummary(st) ==
    LET summary == Get(st.kv, "risk_summary", None)
    IN IF summary.t # "dict"
       THEN Assign(Record(st, "risk_summary must be a dictionary"),
                   "risk_summary", _get_default_risk_summary)
       ELSE Assign(st, "risk_summary", _validate_risk_summary(summary))

\* isinstance(confidence, (int, float)) and 0.0 <= confidence <= 1.0
ConfidenceOk(confidence) ==
    IsIntOrFloat(confidence) /\ 0 <= Tenths(confidence) /\ Tenths(confidence) <= 10

\* lines 61-65
CheckConfidence(st) ==
    LET confidence == Get(st.kv, "confidence_score", F(0))
    IN IF ~ConfidenceOk(confidence)
       THEN Assign(Record(st, "Invalid confidence_score: " \o Format(confidence)),
                   "confidence_score", F(0))
       ELSE st

\* lines 67-70
CheckUrgentActions(st) ==
    IF Get(st.kv, "urgent_actions", None).t # "list"
    THEN Assign(Record(st, "urgent_actions must be a list"),
                "urgent_actions", L(<<>>))
    ELSE st

\* lines 72-76
AttachValidation(st) ==
    Assign(st, "validation",
           D([errors |-> L([i \in 1..Len(st.errors) |-> S(st.errors[i])]),
              is_valid |-> B(Len(st.errors) = 0)]))

\* the body of validate as it would be with the urgent_actions check moved
\* ahead of the confidence_score check
ValidateStepsActionsFirst(arg) ==
    IF arg.t \notin {"dict", "list"}
    THEN Raised("AttributeError")
    ELSE IF arg.t = "list"
    THEN IF \E i \in 1..Len(required_fields) :
                \A j \in 1..Len(arg.xs) : arg.xs[j] # S(required_fields[i])
         THEN Raised("TypeError")
         ELSE Raised("AttributeError")
    ELSE LET s0 == [kv |-> arg.kv, errors |-> <<>>, own |-> {}]
             s1 == CheckRequired(s0, 1)
             s2 == CheckRiskLevel(s1)
             r3 == CheckHazards(s2)
         IN IF r3.raised THEN r3
            ELSE Returned(AttachValidation(
                     CheckConfidence(CheckUrgentActions(CheckRiskSummary(r3.value)))))

\* the body of validate: Returned([kv, errors, own]) or Raised(exception)
ValidateSteps(arg) ==
    IF arg.t \notin {"dict", "list"}
    THEN Raised("AttributeError")                 \* line 29: no .copy()
    ELSE IF arg.t = "list"
    THEN IF \E i \in 1..Len(required_fields) :
                \A j \in 1..Len(arg.xs) : arg.xs[j] # S(required_fields[i])
         THEN Raised("TypeError")                 \* line 36: list[str] = ...
         ELSE Raised("AttributeError")            \* line 39: no .get()
    ELSE LET s0 == [kv |-> arg.kv, errors |-> <<>>, own |-> {}]
             s1 == CheckRequired(s0, 1)
             s2 == CheckRiskLevel(s1)
             r3 == CheckHazards(s2)
         IN IF r3.raised THEN r3
            ELSE Returned(AttachValidation(
                     CheckUrgentActions(CheckConfidence(CheckRiskSummary(r3.value)))))

\* OutputValidator.validate: Returned(report) or Raised(exception)
validate(arg) ==
    LET r == ValidateSteps(arg)
    IN IF r.raised THEN r ELSE Returned(D(r.value.kv))

\* the keys of the report validate(arg) returns whose value is the very
\* object arg holds under that key
SharedKeys(arg) ==
    LET r == ValidateSteps(arg)
    IN IF r.raised THEN {} ELSE DOMAIN r.value.kv \ r.value.own

-----------------------------------------------------------------------------
(* TyphoonSafetyAnalyzer._parse_response *)

\* the characters a response text is drawn from
Alphabet == {"{", "}", "x", " ", "\"", ":", "1"}

\* str.find / str.rfind: 0-based index, -1 when absent
find(text, ch) ==
    IF \E i \in 1..Len(text) : text[i] = ch
    THEN (CHOOSE i \in 1..Len(text) :
            text[i] = ch /\ \A j \in 1..(i - 1) : text[j] # ch) - 1
    ELSE -1

rfind(text, ch) ==
    IF \E i \in 1..Len(text) : text[i] = ch
    THEN (CHOOSE i \in 1..Len(text) :
            text[i] = ch /\ \A j \in (i + 1)..Len(text) : text[j] # ch) - 1
    ELSE -1

\* text[start:end] for 0 <= start
Slice(text, start, end) == SubSeq(text, start + 1, end)

\* the text as one Python string
RECURSIVE Join(_)
Join(text) == IF Len(text) = 0 THEN "" ELSE Head(text) \o Join(Tail(text))

(* json.loads on a string over Alphabet.  Over these characters JSON is      *)
(*   value  ::= object | string | number                                    *)
(*   object ::= "{" ws "}"  |  "{" ws string ws ":" ws value ws "}"         *)
(*   string ::= '"' (any character but '"')* '"'                            *)
(*   number ::= "1"+                                                        *)
(* A scan answers [ok |-> TRUE, val, next] or [ok |-> FALSE, exc].          *)

\* the interpreter's limit on the digits of an integer literal
\* (sys.int_info.default_max_str_digits); int() raises ValueError above it
IntMaxStrDigits == 4300

ScanOk(val, next) == [ok |-> TRUE, val |-> val, next |-> next]
ScanErr(exc) == [ok |-> FALSE, exc |-> exc]

\* the first position from i on that does not hold ch (Len + 1 if none)
SkipRun(str, i, ch) ==
    CHOOSE j \in i..(Len(str) + 1) :
        /\ (j = Len(str) + 1 \/ str[j] # ch)
        /\ \A k \in i..(j - 1) : str[k] = ch

SkipWs(str, i) == SkipRun(str, i, " ")

\* the integer written as k ones
RECURSIVE Ones(_)
Ones(k) == IF k = 0 THEN 0 ELSE 10 * Ones(k - 1) + 1

\* str[i] is the opening quote
ScanString(str, i) ==
    IF \E j \in (i + 1)..Len(str) : str[j] = "\""
    THEN LET close == CHOOSE j \in (i + 1)..Len(str) :
                         str[j] = "\"" /\ \A k \in (i + 1)..(j - 1) : str[k] # "\""
         IN ScanOk(S(Join(SubSeq(str, i + 1, close - 1))), close + 1)
    ELSE ScanErr("JSONDecodeError")

\* str[i] is the first digit
ScanNumber(str, i) ==
    LET end == SkipRun(str, i, "1")
    IN IF end - i > IntMaxStrDigits
       THEN ScanErr("ValueError")
       ELSE ScanOk(I(Ones(end - i)), end)

RECURSIVE ScanValue(_, _)
ScanObject(str, i) ==
    LET j == SkipWs(str, i + 1)
    IN IF j > Len(str) THEN ScanErr("JSONDecodeError")
       ELSE IF str[j] = "}" THEN ScanOk(D(EmptyKv), j + 1)
       ELSE IF str[j] # "\"" THEN ScanErr("JSONDecodeError")
       ELSE LET key == ScanString(str, j)
            IN IF ~key.ok THEN key
               ELSE LET c == SkipWs(str, key.next)
                    IN IF c > Len(str) \/ str[c] # ":"
                       THEN ScanErr("JSONDecodeError")
                       ELSE LET v == ScanValue(str, SkipWs(str, c + 1))
                            IN IF ~v.ok THEN v
                               ELSE LET e == SkipWs(str, v.next)
                                    IN IF e > Len(str) \/ str[e] # "}"
                                       THEN ScanErr("JSONDecodeError")
                                       ELSE ScanOk(D(key.val.s :> v.val), e + 1)

ScanValue(str, i) ==
    IF i > Len(str) THEN ScanErr("JSONDecodeError")
    ELSE IF str[i] = "{" THEN ScanObject(str, i)
    ELSE IF str[i] = "\"" THEN ScanString(str, i)
    ELSE IF str[i] = "1" THEN ScanNumber(str, i)
    ELSE ScanErr("JSONDecodeError")

\* json.loads(str): the value, or the exception the scan or int() raised
json_loads(str) ==
    LET r == ScanValue(str, SkipWs(str, 1))
    IN IF ~r.ok THEN Raised(r.exc)
       ELSE IF SkipWs(str, r.next) <= Len(str)
            THEN Raised("JSONDecodeError")        \* extra data
            ELSE Returned(r.val)

\* mutation: the fallback names its flat list hazards_by_category
FallbackRenamed(summary, text) ==
    D([overall_risk_level |-> S("unknown"),
       hazards_by_category |-> L(<<>>),
       summary |-> S(summary),
       urgent_actions |-> L(<<>>),
       confidence_score |-> F(0),
       raw_response |-> S(Join(text))])

Fallback(summary, text) ==
    D([overall_risk_level |-> S("unknown"),
       hazards_detected |-> L(<<>>),
       summary |-> S(summary),
       urgent_actions |-> L(<<>>),
       confidence_score |-> F(0),
       raw_response |-> S(Join(text))])

\* _parse_response with the branch it took: the parsed object, the no-JSON
\* fallback, the fallback of the JSONDecodeError handler, or an exception the
\* handler does not catch
ParseOutcome(text) ==
    LET start_idx == find(text, "{")
        end_idx == rfind(text, "}") + 1
    IN IF start_idx # -1 /\ end_idx # -1
       THEN LET r == json_loads(Slice(text, start_idx, end_idx))
            IN IF ~r.raised
               THEN [path |-> "parsed", raised |-> FALSE, value |-> r.value]
               ELSE IF r.exc = "JSONDecodeError"
               THEN [path |-> "decode_error", raised |-> FALSE,
                     value |-> Fallback("Failed to parse response", text)]
               ELSE [path |-> "raised", raised |-> TRUE, exc |-> r.exc]
       ELSE [path |-> "no_json", raised |-> FALSE,
             value |-> Fallback(Join(text), text)]

\* Returned(structure) or Raised(exception)
_parse_response(text) ==
    LET o == ParseOutcome(text)
    IN IF o.raised THEN Raised(o.exc) ELSE Returned(o.value)

-----------------------------------------------------------------------------
(* The inputs the calls are made on *)

\* marks a key left out of a drawn dict, and a variable not yet assigned
Absent == [t |-> "absent"]
Unset == [t |-> "unset"]

\* the dict holding the keys of c that were not left out
MkDict(c) == D([k \in {x \in DOMAIN c : c[x] # Absent} |-> c[k]])

\* all sequences over set of length at most n
SeqsUpTo(set, n) == UNION {[1..k -> set] : k \in 0..n}

Categories == {hazard_categories[i] : i \in 1..Len(hazard_categories)}

\* an entry of the shape the category declares, every field legal
ConformantEntry(c) ==
    CASE c = "flying_objects" ->
           D([item |-> S("sign"), description |-> S("loose"),
              movement_risk |-> S("high"), impact_severity |-> S("critical"),
              overall_risk |-> S("medium"), location |-> S("roof"),
              recommendation |-> S("secure")])
      [] c = "structural_damage" ->
           D([item |-> S("wall"), description |-> S("cracked"),
              risk_level |-> S("critical"), location |-> S("north"),
              recommendation |-> S("brace")])
      [] c = "elevated_objects" ->
           D([item |-> S("tank"), description |-> S("unfixed"),
              fall_risk |-> S("low"), impact_severity |-> S("high"),
              overall_risk |-> S("unknown"), location |-> S("top"),
              recommendation |-> S("anchor")])
      [] c = "tree_hazards" ->
           D([description |-> S("leaning"), risk_level |-> S("low"),
              location |-> S("yard"), recommendation |-> S("trim")])

\* an entry whose risk fields are outside their enumerations ('critical' is
\* no movement or fall risk) and that carries a stray key
BadRiskEntry(c) ==
    CASE c = "flying_objects" ->
           D([item |-> S("sign"), movement_risk |-> S("critical"),
              impact_severity |-> S("extreme"), overall_risk |-> I(3),
              stray |-> S("kept?")])
      [] c = "structural_damage" ->
           D([item |-> I(7), risk_level |-> S("extreme"), stray |-> S("kept?")])
      [] c = "elevated_objects" ->
           D([fall_risk |-> S("critical"), impact_severity |-> None,
              overall_risk |-> S("severe"), stray |-> S("kept?")])
      [] c = "tree_hazards" ->
           D([risk_level |-> L(<<S("low")>>), stray |-> S("kept?")])

EntryOptions(c) ==
    {ConformantEntry(c), BadRiskEntry(c), D(EmptyKv),
     S("x"), I(1), None, L(<<>>)}

\* what a category key may hold: a sequence of entries, or no sequence
CategoryValues(c) ==
    {L(xs) : xs \in SeqsUpTo(EntryOptions(c), MaxEntries)} \cup {S("none"), None}

\* hazards_by_category mappings: one category drawn freely, the other three
\* all left out, all empty or all holding one conformant entry; with or
\* without a key that is no category
HazardDicts ==
    UNION {
      {MkDict([k \in Categories \cup {"other"} |->
                  IF k = c THEN v
                  ELSE IF k = "other" THEN extra
                  ELSE IF rest = "absent" THEN Absent
                  ELSE IF rest = "empty" THEN L(<<>>)
                  ELSE L(<<ConformantEntry(k)>>)]) :
          v \in CategoryValues(c), rest \in {"absent", "empty", "full"},
          extra \in {Absent, L(<<I(1)>>)}} :
      c \in Categories}

ConformantHazards ==
    D([c \in Categories |-> L(<<ConformantEntry(c)>>)])

CountOptions ==
    {Absent, I(-1), F(10), S("2"), B(TRUE), None} \cup {I(n) : n \in 0..MaxCount}

\* risk_summary mappings: two counts drawn freely, the other three alike
SummaryDicts ==
    {MkDict([critical_count |-> a, high_count |-> b, medium_count |-> c,
             low_count |-> c, total_hazards |-> c]) :
        a \in CountOptions, b \in CountOptions, c \in CountOptions}

ConformantSummary ==
    D([critical_count |-> I(1), high_count |-> I(0), medium_count |-> I(MaxCount),
       low_count |-> I(0), total_hazards |-> I(MaxCount)])

LevelOptions == {Absent, S("high"), S("unknown"), S("extreme"), None, L(<<S("high")>>)}
HazardOptions == {Absent, None, L(<<>>), S("none"), D(EmptyKv), ConformantHazards}
SummaryOptions == {Absent, None, L(<<I(1)>>), D(EmptyKv), ConformantSummary}
ActionOptions == {Absent, L(<<>>), L(<<S("evacuate")>>), S("evacuate"), None}
TextOptions == {Absent, S("ok"), I(123)}
ConfidenceOptions ==
    {Absent, F(0), F(5), F(10), F(15), F(-1), I(0), I(1), I(2),
     S("0.5"), None, B(TRUE), B(FALSE)}

\* a report with every required field present and legal
ConformantInput ==
    [overall_risk_level |-> S("high"), hazards_by_category |-> ConformantHazards,
     risk_summary |-> ConformantSummary, urgent_actions |-> L(<<S("evacuate")>>),
     summary |-> S("ok"), confidence_score |-> F(9)]

\* every required field left out
EmptyInput == [k \in DOMAIN ConformantInput |-> Absent]

\* mappings whose six top-level fields are drawn independently
TopInputs ==
    {MkDict([overall_risk_level |-> l, hazards_by_category |-> h,
             risk_summary |-> r, urgent_actions |-> u, summary |-> s,
             confidence_score |-> c]) :
        l \in LevelOptions, h \in HazardOptions, r \in SummaryOptions,
        u \in ActionOptions, s \in TextOptions, c \in ConfidenceOptions}

\* mappings whose hazards_by_category or risk_summary is drawn in depth, the
\* other fields all legal or all left out
NestedInputs ==
    {MkDict([base EXCEPT !["hazards_by_category"] = h]) :
        base \in {ConformantInput, EmptyInput}, h \in HazardDicts}
    \cup
    {MkDict([base EXCEPT !["risk_summary"] = r]) :
        base \in {ConformantInput, EmptyInput}, r \in SummaryDicts}

\* arguments that are no mapping at all
NonMappingInputs ==
    {None, B(TRUE), I(3), F(5), S("x"), L(<<>>), L(<<S("overall_risk_level")>>),
     L([i \in 1..Len(required_fields) |-> S(required_fields[i])])}

Inputs == TopInputs \cup NestedInputs \cup NonMappingInputs

\* prefix, then n ones, then suffix
WithOnes(prefix, n, suffix) ==
    prefix \o [i \in 1..n |-> "1"] \o suffix

\* texts too long to be drawn exhaustively: objects with one member, and an
\* object whose number has more digits than int() converts
SampleTexts ==
    {WithOnes(<<"{", "\"", "\"", ":">>, 1, <<"}">>),
     WithOnes(<<"x", " ", "{", " ", "\"", "x", "\"", " ", ":", " ">>, 2,
              <<" ", "}", " ", "x">>),
     <<"{", "\"", "1", "\"", ":", "{", "}", "}">>,
     <<"{", "\"", "x", "\"", ":", "\"", "{", "\"", "}">>,
     <<"{", "\"", "\"", ":", "1", "}", "}">>,
     <<"{", "\"", "\"", ":", "1", " ", "1", "}">>,
     <<"{", "\"", "\"", ":", "{", "x", "}", "}">>,
     WithOnes(<<"{", "\"", "\"", ":">>, IntMaxStrDigits + 1, <<"}">>)}

Texts == SeqsUpTo(Alphabet, MaxLen) \cup SampleTexts

-----------------------------------------------------------------------------
(* The calls *)

TypeOK ==
    /\ pc \in {"text", "parse_failed", "call", "validated", "revalidated", "mutated"}
    /\ path \in {"none", "parsed", "no_json", "decode_error", "raised"}

\* either a response text is about to be parsed, or validate is about to be
\* called on a directly constructed argument
Init ==
    /\ result = Unset
    /\ again = Unset
    /\ path = "none"
    /\ \/ /\ pc = "text"
          /\ response_text \in Texts
          /\ analysis_result = Unset
       \/ /\ pc = "call"
          /\ response_text = <<>>
          /\ analysis_result \in Inputs

\* analyzer.py line 91: analysis_result = self._parse_response(response.content);
\* an exception it raises skips validate (line 100: except Exception)
ParseResponse ==
    /\ pc = "text"
    /\ LET r == _parse_response(response_text)
       IN IF r.raised
          THEN /\ pc' = "parse_failed"
               /\ UNCHANGED analysis_result
          ELSE /\ pc' = "call"
               /\ analysis_result' = r.value
    /\ path' = ParseOutcome(response_text).path
    /\ UNCHANGED <<response_text, result, again>>

\* analyzer.py line 92: validated_result = self.validator.validate(analysis_result)
Validate ==
    /\ pc = "call"
    /\ result' = validate(analysis_result)
    /\ pc' = "validated"
    /\ UNCHANGED <<response_text, path, analysis_result, again>>

\* validate applied to the report it returned
Revalidate ==
    /\ pc = "validated"
    /\ ~result.raised
    /\ again' = validate(result.value)
    /\ pc' = "revalidated"
    /\ UNCHANGED <<response_text, path, analysis_result, result>>

\* container after the caller modified it in place: list.append(...) or
\* dict[...] = ...
Modified(container) ==
    IF container.t = "list"
    THEN L(Append(container.xs, S("later")))
    ELSE D(Put(container.kv, "later", I(1)))

\* the caller modifies in place a container the returned report holds under
\* key k; the argument sees the change when it holds the same object
MutateReport ==
    /\ pc = "validated"
    /\ ~result.raised
    /\ \E k \in DOMAIN result.value.kv :
          /\ result.value.kv[k].t \in {"list", "dict"}
          /\ result' = [result EXCEPT !.value.kv[k] = Modified(@)]
          /\ analysis_result' =
                IF k \in SharedKeys(analysis_result)
                THEN [analysis_result EXCEPT !.kv[k] = Modified(@)]
                ELSE analysis_result
    /\ pc' = "mutated"
    /\ UNCHANGED <<response_text, path, again>>

Next == ParseResponse \/ Validate \/ Revalidate \/ MutateReport

Spec == Init /\ [][Next]_vars

-----------------------------------------------------------------------------
(* Vocabulary of the properties *)

\* validate has been called on analysis_result
Called == pc \in {"validated", "revalidated"}
\* ... and returned a report
HasReport == Called /\ ~result.raised
\* validate has been called again on its own report (it cannot raise there
\* unless the property under check says so)
HasSecondReport == pc = "revalidated" /\ ~again.raised

Report == result.value.kv
SecondReport == again.value.kv

\* the recorded errors of a report, as strings
ErrorsOf(rep) ==
    LET xs == rep["validation"].kv["errors"].xs
    IN [i \in 1..Len(xs) |-> xs[i].s]

IsValidOf(rep) == rep["validation"].kv["is_valid"]

Occurrences(seq, x) == Cardinality({i \in 1..Len(seq) : seq[i] = x})

RequiredSet == {required_fields[i] : i \in 1..Len(required_fields)}

EmptyBuckets == D([c \in Categories |-> L(<<>>)])

\* the risk-valued fields each category's entries declare, with their
\* enumerations
RiskLevels == valid_risk_levels
NarrowLevels == {S("high"), S("medium"), S("low"), S("unknown")}

EntryEnums(c) ==
    CASE c = "flying_objects" ->
           [movement_risk |-> NarrowLevels, impact_severity |-> RiskLevels,
            overall_risk |-> RiskLevels]
      [] c = "structural_damage" -> [risk_level |-> RiskLevels]
      [] c = "elevated_objects" ->
           [fall_risk |-> NarrowLevels, impact_severity |-> RiskLevels,
            overall_risk |-> RiskLevels]
      [] c = "tree_hazards" -> [risk_level |-> RiskLevels]

\* the free-text fields each category's entries declare
EntryTexts(c) ==
    IF c = "tree_hazards" THEN {"description", "location", "recommendation"}
    ELSE {"item", "description", "location", "recommendation"}

\* every risk-valued field of the report is in its enumeration
EnumsClosed(rep) ==
    /\ rep["overall_risk_level"] \in RiskLevels
    /\ \A c \in Categories \cap DOMAIN rep["hazards_by_category"].kv :
         LET xs == rep["hazards_by_category"].kv[c].xs
         IN \A i \in 1..Len(xs) :
              \A f \in DOMAIN EntryEnums(c) :
                 /\ f \in DOMAIN xs[i].kv
                 /\ xs[i].kv[f] \in EntryEnums(c)[f]

\* an input entry of some category carries a risk value outside its
\* enumeration (among them 'critical' as a movement or fall risk)
HasIllegalRisk(v) ==
    /\ v.t = "dict"
    /\ "hazards_by_category" \in DOMAIN v.kv
    /\ v.kv["hazards_by_category"].t = "dict"
    /\ \E c \in Categories \cap DOMAIN v.kv["hazards_by_category"].kv :
         LET cd == v.kv["hazards_by_category"].kv[c]
         IN /\ cd.t = "list"
            /\ \E i \in 1..Len(cd.xs) :
                 /\ cd.xs[i].t = "dict"
                 /\ \E f \in DOMAIN EntryEnums(c) \cap DOMAIN cd.xs[i].kv :
                      cd.xs[i].kv[f] \notin EntryEnums(c)[f]

-----------------------------------------------------------------------------
(* C1 *)

\* C1: validate never raises on a top-level mapping, whatever is nested in
\* it, in particular when a category sequence holds elements that are no
\* mappings.
C1_NoRaiseOnMapping ==
    (Called /\ analysis_result.t = "dict") => ~result.raised

(* C2 *)

\* C2: validate never raises when its argument is no mapping (null, a list,
\* a string, a number): it returns a report.
C2_NoRaiseOnNonMapping ==
    (Called /\ analysis_result.t # "dict") => ~result.raised

(* C3 *)

\* C3: in every returned report hazards_by_category has exactly the four
\* category keys, each mapped to a sequence.
C3_FourCategories ==
    HasReport =>
        /\ Report["hazards_by_category"].t = "dict"
        /\ DOMAIN Report["hazards_by_category"].kv = Categories
        /\ \A c \in Categories : Report["hazards_by_category"].kv[c].t = "list"

(* C4 *)

\* C4: in every returned report each risk-valued field is a member of its
\* enumeration: overall_risk_level, impact_severity, overall_risk and
\* risk_level in {low, medium, high, critical, unknown}, movement_risk and
\* fall_risk in {high, medium, low, unknown}; no invalid value passes through.
C4_EnumClosure ==
    /\ HasReport => EnumsClosed(Report)
    /\ HasSecondReport => EnumsClosed(SecondReport)

\* a report was returned for an input whose flying_objects held an entry with
\* movement_risk 'critical', which the report gives as 'unknown'
C4_Witness ==
    /\ HasReport
    /\ HasIllegalRisk(analysis_result)
    /\ LET src == analysis_result.kv["hazards_by_category"].kv
           out == Report["hazards_by_category"].kv
       IN /\ "flying_objects" \in DOMAIN src
          /\ src["flying_objects"].t = "list"
          /\ \E i \in 1..Len(src["flying_objects"].xs) :
                /\ src["flying_objects"].xs[i] = BadRiskEntry("flying_objects")
                /\ out["flying_objects"].xs[i].kv["movement_risk"] = S("unknown")

-----------------------------------------------------------------------------
(* C5 *)

StartsWith(str, prefix) ==
    Len(str) >= Len(prefix) /\ SubSeq(str, 1, Len(prefix)) = prefix

\* a number that is no boolean
IsNumber(v) == v.t \in {"int", "float"}

\* the six required fields are present with their declared types
TypedReport(rep) ==
    /\ RequiredSet \subseteq DOMAIN rep
    /\ rep["overall_risk_level"] \in RiskLevels
    /\ rep["hazards_by_category"].t = "dict"
    /\ rep["risk_summary"].t = "dict"
    /\ \A k \in DOMAIN rep["risk_summary"].kv : rep["risk_summary"].kv[k].t = "int"
    /\ rep["urgent_actions"].t = "list"
    /\ rep["summary"].t = "str"
    /\ IsNumber(rep["confidence_score"])

\* C5: every returned report has the six required fields with their declared
\* types: enumerated overall_risk_level, mapping hazards_by_category, mapping
\* of integers risk_summary, sequence urgent_actions, string summary, and a
\* confidence_score that is a number (no boolean, no string).
C5_RequiredFieldTypes == HasReport => TypedReport(Report)

-----------------------------------------------------------------------------
(* C6 *)

\* an entry of exactly the shape its category declares
ConformantItem(c, e) ==
    /\ e.t = "dict"
    /\ DOMAIN e.kv = DOMAIN EntryEnums(c) \cup EntryTexts(c)
    /\ \A f \in DOMAIN EntryEnums(c) : e.kv[f] \in EntryEnums(c)[f]
    /\ \A f \in EntryTexts(c) : e.kv[f].t = "str"

\* an AnalysisReport as the data model declares it (its six required fields)
Conformant(v) ==
    /\ v.t = "dict"
    /\ RequiredSet \subseteq DOMAIN v.kv
    /\ v.kv["overall_risk_level"] \in RiskLevels
    /\ v.kv["hazards_by_category"].t = "dict"
    /\ DOMAIN v.kv["hazards_by_category"].kv = Categories
    /\ \A c \in Categories :
         LET cd == v.kv["hazards_by_category"].kv[c]
         IN /\ cd.t = "list"
            /\ \A i \in 1..Len(cd.xs) : ConformantItem(c, cd.xs[i])
    /\ v.kv["risk_summary"].t = "dict"
    /\ DOMAIN v.kv["risk_summary"].kv = summary_keys
    /\ \A k \in summary_keys :
         /\ v.kv["risk_summary"].kv[k].t = "int"
         /\ v.kv["risk_summary"].kv[k].n >= 0
    /\ v.kv["urgent_actions"].t = "list"
    /\ \A i \in 1..Len(v.kv["urgent_actions"].xs) :
         v.kv["urgent_actions"].xs[i].t = "str"
    /\ v.kv["summary"].t = "str"
    /\ IsNumber(v.kv["confidence_score"])
    /\ 0 <= Tenths(v.kv["confidence_score"])
    /\ Tenths(v.kv["confidence_score"]) <= 10

\* the call returned its argument's six required fields unchanged, with no
\* error
SameReport(arg, res) ==
    /\ ~res.raised
    /\ \A f \in RequiredSet : res.value.kv[f] = arg.kv[f]
    /\ ErrorsOf(res.value.kv) = <<>>
    /\ IsValidOf(res.value.kv) = B(TRUE)

\* C6: validate applied to an already-conformant AnalysisReport, a directly
\* constructed one or a conformant report validate itself returned, gives
\* back the same six required fields with validation.errors = [] and
\* is_valid = true.
C6_Idempotence ==
    /\ (Called /\ Conformant(analysis_result)) => SameReport(analysis_result, result)
    /\ (pc = "revalidated" /\ Conformant(result.value))
          => SameReport(result.value, again)

\* validate ran on a conformant report of its own that it had to correct the
\* first time, with a category sequence of full length
C6_Witness ==
    /\ pc = "revalidated"
    /\ Conformant(result.value)
    /\ ErrorsOf(Report) # <<>>
    /\ \E c \in Categories : Len(Report["hazards_by_category"].kv[c].xs) = MaxEntries
    /\ ~again.raised

-----------------------------------------------------------------------------
(* C7 *)

MissingError(f) == "Missing required field: " \o f

\* what the report holds for a required field the input left out
DefaultOut(f) ==
    CASE f = "overall_risk_level" -> S("unknown")
      [] f = "hazards_by_category" -> EmptyBuckets
      [] f = "risk_summary" ->
           D([k \in summary_keys |-> I(0)])
      [] f = "urgent_actions" -> L(<<>>)
      [] f = "summary" -> S("Analysis incomplete")
      [] f = "confidence_score" -> F(0)

\* e is one of the errors validate records about the value of field f
ValueError(f, e) ==
    CASE f = "overall_risk_level" -> StartsWith(e, "Invalid overall_risk_level: ")
      [] f = "hazards_by_category" -> e = "hazards_by_category must be a dictionary"
      [] f = "risk_summary" -> e = "risk_summary must be a dictionary"
      [] f = "urgent_actions" -> e = "urgent_actions must be a list"
      [] f = "summary" -> FALSE
      [] f = "confidence_score" -> StartsWith(e, "Invalid confidence_score: ")

\* C7: for each required field absent from the input mapping validate records
\* exactly one error "Missing required field: <name>", substitutes the
\* default and records no further error for that field; the input {} yields
\* exactly the six missing-field errors and is_valid = false.
C7_MissingFields ==
    (HasReport /\ analysis_result.t = "dict") =>
        LET errs == ErrorsOf(Report)
        IN /\ \A f \in RequiredSet \ DOMAIN analysis_result.kv :
                /\ Occurrences(errs, MissingError(f)) = 1
                /\ Report[f] = DefaultOut(f)
                /\ \A i \in 1..Len(errs) : ~ValueError(f, errs[i])
           /\ \A f \in RequiredSet \cap DOMAIN analysis_result.kv :
                Occurrences(errs, MissingError(f)) = 0
           /\ analysis_result = D(EmptyKv) =>
                /\ errs = [i \in 1..Len(required_fields) |->
                              MissingError(required_fields[i])]
                /\ IsValidOf(Report) = B(FALSE)

\* the report of the empty mapping
C7_Witness ==
    /\ HasReport
    /\ analysis_result = D(EmptyKv)
    /\ Len(ErrorsOf(Report)) = 6

-----------------------------------------------------------------------------
(* C8 *)

ConfidenceErrors(errs) ==
    Cardinality({i \in 1..Len(errs) : ValueError("confidence_score", errs[i])})

\* C8: the report's confidence_score equals the input's when that is numeric
\* and within [0.0, 1.0]; for every other value (out of range, a string,
\* null, a boolean) it is 0.0 and exactly one error
\* "Invalid confidence_score: <value>" is recorded.
C8_ConfidenceRule ==
    (/\ HasReport
     /\ analysis_result.t = "dict"
     /\ "confidence_score" \in DOMAIN analysis_result.kv) =>
        LET c == analysis_result.kv["confidence_score"]
            errs == ErrorsOf(Report)
        IN IF IsNumber(c) /\ 0 <= Tenths(c) /\ Tenths(c) <= 10
           THEN /\ Report["confidence_score"] = c
                /\ ConfidenceErrors(errs) = 0
           ELSE /\ Report["confidence_score"] = F(0)
                /\ ConfidenceErrors(errs) = 1
                /\ Occurrences(errs, "Invalid confidence_score: " \o Format(c)) = 1

-----------------------------------------------------------------------------
(* C9 *)

\* C9: the report's risk_summary has exactly the five count keys, each a
\* non-negative integer; for an input mapping each count that is a
\* non-negative integer is preserved and every other value (negative,
\* absent, float, string, boolean, null) becomes 0 with no error recorded;
\* for an input that is no mapping one error is recorded and all counts are 0.
C9_RiskSummaryRule ==
    (HasReport /\ analysis_result.t = "dict") =>
        LET out == Report["risk_summary"]
            errs == ErrorsOf(Report)
            n == Occurrences(errs, "risk_summary must be a dictionary")
        IN /\ out.t = "dict"
           /\ DOMAIN out.kv = summary_keys
           /\ \A k \in summary_keys : out.kv[k].t = "int" /\ out.kv[k].n >= 0
           /\ "risk_summary" \in DOMAIN analysis_result.kv =>
                LET in == analysis_result.kv["risk_summary"]
                IN IF in.t = "dict"
                   THEN /\ n = 0
                        /\ \A k \in summary_keys :
                             out.kv[k] =
                               IF /\ k \in DOMAIN in.kv
                                  /\ in.kv[k].t = "int"
                                  /\ in.kv[k].n >= 0
                               THEN in.kv[k] ELSE I(0)
                   ELSE /\ n = 1
                        /\ \A k \in summary_keys : out.kv[k] = I(0)

-----------------------------------------------------------------------------
(* C10 *)

\* C10: whenever _parse_response took a fallback path, validate of its
\* result returns a conformant report with overall_risk_level 'unknown',
\* confidence_score 0.0, four empty buckets, an all-zero risk_summary, the
\* fallback's summary, and exactly the two missing-field errors for
\* hazards_by_category and risk_summary, in that order.
C10_FallbackEndToEnd ==
    (Called /\ path \in {"no_json", "decode_error"}) =>
        /\ ~result.raised
        /\ Conformant(result.value)
        /\ Report["overall_risk_level"] = S("unknown")
        /\ Report["confidence_score"] = F(0)
        /\ Report["hazards_by_category"] = EmptyBuckets
        /\ Report["risk_summary"] = D([k \in summary_keys |-> I(0)])
        /\ Report["summary"] = analysis_result.kv["summary"]
        /\ Report["summary"] =
             IF path = "no_json" THEN S(Join(response_text))
             ELSE S("Failed to parse response")
        /\ ErrorsOf(Report) =
             <<MissingError("hazards_by_category"), MissingError("risk_summary")>>
        /\ IsValidOf(Report) = B(FALSE)

\* a text of full length with an opening brace and no closing one went
\* through the decode-error fallback and validate
C10_Witness ==
    /\ HasReport
    /\ path = "decode_error"
    /\ Len(response_text) = MaxLen
    /\ find(response_text, "}") = -1

-----------------------------------------------------------------------------
(* C11 *)

\* _parse_response has run on response_text and analysis_result is still
\* as it returned it
Parsed == path # "none" /\ pc # "mutated"

\* the text has a first "{" and a last "}" at or after it
PairFound(text) ==
    find(text, "{") # -1 /\ rfind(text, "}") >= find(text, "{")

\* the substring from the first "{" to the last "}", both included
Between(text) == Slice(text, find(text, "{"), rfind(text, "}") + 1)

\* v is the fallback structure for text, whatever its summary
IsFallback(v, text) ==
    /\ v.t = "dict"
    /\ DOMAIN v.kv = {"overall_risk_level", "hazards_detected", "summary",
                      "urgent_actions", "confidence_score", "raw_response"}
    /\ v.kv["overall_risk_level"] = S("unknown")
    /\ v.kv["hazards_detected"] = L(<<>>)
    /\ v.kv["urgent_actions"] = L(<<>>)
    /\ v.kv["confidence_score"] = F(0)
    /\ v.kv["raw_response"] = S(Join(text))

\* what _parse_response returned is the parsed object when the text has a
\* brace pair whose substring parses, and the fallback structure otherwise
ParsedOrFallback ==
    IF PairFound(response_text) /\ ~json_loads(Between(response_text)).raised
    THEN analysis_result = json_loads(Between(response_text)).value
    ELSE IsFallback(analysis_result, response_text)

\* C11: _parse_response never raises for any string: it returns the parsed
\* object when the substring from the first "{" to the last "}" parses as a
\* JSON object, and in every other case the fallback structure with
\* overall_risk_level 'unknown', hazards_detected [], urgent_actions [],
\* confidence_score 0.0 and raw_response equal to the whole text.
C11_ParseTotal ==
    Parsed => (path # "raised" /\ ParsedOrFallback)

-----------------------------------------------------------------------------
(* C13 *)

\* C13: the fallback's summary is the raw text exactly when the text has no
\* brace pair (no "{", or no "}" at or after the first "{"), and is
\* "Failed to parse response" exactly when a pair is found whose substring
\* fails to parse.
C13_SummarySelection ==
    (Parsed /\ path \in {"no_json", "decode_error"}) =>
        /\ analysis_result.kv["summary"] = S(Join(response_text))
             <=> ~PairFound(response_text)
        /\ analysis_result.kv["summary"] = S("Failed to parse response")
             <=> PairFound(response_text)

-----------------------------------------------------------------------------
(* C12 *)

\* the argument of validate is a mapping and validate returned a report
ReportFromMapping == pc = "validated" /\ ~result.raised

\* C12: validate never mutates the mapping it is given, and the report it
\* returns is a separate mapping owning all its fields: no mutation of the
\* report after the call is visible through the argument.  As an action
\* property: neither the call itself nor any later in-place change of the
\* report changes analysis_result.
C12_InputIsolated ==
    [][(pc \in {"call", "validated"}) => analysis_result' = analysis_result]_vars

\* the half of C12 the code keeps: the call itself leaves its argument alone,
\* and so does a later change of a field the call assigned
C12_CallLeavesInput ==
    [][(pc = "call" \/ (pc = "validated" /\ pc' = "mutated"
                          /\ \E k \in DOMAIN result.value.kv \ SharedKeys(analysis_result) :
                                result'.value.kv[k] # result.value.kv[k]))
          => analysis_result' = analysis_result]_vars

-----------------------------------------------------------------------------
(* C14 *)

\* the input's hazards_by_category, None when the key is absent
InputHazards == Get(analysis_result.kv, "hazards_by_category", None)

\* the input holds a mapping under hazards_by_category
HazardsIsMapping ==
    Has(analysis_result.kv, "hazards_by_category") /\ InputHazards.t = "dict"

\* the input with its hazards_by_category replaced by h
WithHazards(h) == D(Put(analysis_result.kv, "hazards_by_category", h))

\* C14: when the input's hazards_by_category is a mapping nothing inside it
\* adds an entry to validation.errors: no error names hazards_by_category and
\* the errors are those of the same input with four empty categories (a
\* missing category, a category that is no sequence, an entry with absent
\* fields, an out-of-enumeration risk value are corrected silently); the
\* error "hazards_by_category must be a dictionary" is recorded exactly when
\* hazards_by_category is present and no mapping.
C14_TwoTier ==
    HasReport =>
        /\ HazardsIsMapping =>
              /\ \A i \in 1..Len(ErrorsOf(Report)) :
                    /\ ErrorsOf(Report)[i] # MissingError("hazards_by_category")
                    /\ ~ValueError("hazards_by_category", ErrorsOf(Report)[i])
                    /\ \E f \in RequiredSet \ {"hazards_by_category"} :
                          \/ ErrorsOf(Report)[i] = MissingError(f)
                          \/ ValueError(f, ErrorsOf(Report)[i])
              /\ ErrorsOf(Report) = ErrorsOf(validate(WithHazards(EmptyBuckets)).value.kv)
        /\ Occurrences(ErrorsOf(Report), "hazards_by_category must be a dictionary")
              = IF Has(analysis_result.kv, "hazards_by_category") /\ ~HazardsIsMapping
                THEN 1 ELSE 0

\* is_valid is true although the mapping held an out-of-enumeration risk
\* value, a category that is no sequence and missing categories, all of which
\* the report corrected
C14_Witness ==
    /\ HasReport
    /\ HazardsIsMapping
    /\ IsValidOf(Report) = B(TRUE)
    /\ Has(InputHazards.kv, "flying_objects")
    /\ InputHazards.kv["flying_objects"] = L(<<BadRiskEntry("flying_objects")>>)
    /\ Report["hazards_by_category"].kv["flying_objects"].xs[1].kv["overall_risk"]
          = S("unknown")
    /\ ~Has(InputHazards.kv, "tree_hazards")
    /\ Report["hazards_by_category"].kv["tree_hazards"] = L(<<>>)

\* the same with a category that is no sequence
C14_WitnessNoSequence ==
    /\ HasReport
    /\ HazardsIsMapping
    /\ IsValidOf(Report) = B(TRUE)
    /\ Has(InputHazards.kv, "structural_damage")
    /\ InputHazards.kv["structural_damage"] = S("none")
    /\ Report["hazards_by_category"].kv["structural_damage"] = L(<<>>)

-----------------------------------------------------------------------------
(* C15 *)

\* the fields in the order their missing-field errors are listed
MissingOrder ==
    <<"overall_risk_level", "hazards_by_category", "risk_summary",
      "urgent_actions", "summary", "confidence_score">>

\* the fields in the order their value errors are listed
ValueOrder ==
    <<"overall_risk_level", "hazards_by_category", "risk_summary",
      "confidence_score", "urgent_actions">>

\* the places of error e in the fixed list: 1..6 the missing-field errors,
\* 7..11 the value errors
PlacesOf(e) ==
    {i \in 1..Len(MissingOrder) : e = MissingError(MissingOrder[i])}
    \cup {Len(MissingOrder) + i : i \in {j \in 1..Len(ValueOrder) :
                                           ValueError(ValueOrder[j], e)}}

\* errs is a duplicate-free subsequence of the fixed list: every error has
\* one place in it and the places strictly increase
OrderedErrors(errs) ==
    /\ \A i \in 1..Len(errs) : Cardinality(PlacesOf(errs[i])) = 1
    /\ \A i, j \in 1..Len(errs) :
          i < j => \A p \in PlacesOf(errs[i]), q \in PlacesOf(errs[j]) : p < q

\* is_valid is true iff no error was recorded
ValidIffNoErrors(rep) == IsValidOf(rep) = B(Len(ErrorsOf(rep)) = 0)

\* C15: validation.errors is always a duplicate-free subsequence of the fixed
\* list (missing-field errors in the order overall_risk_level,
\* hazards_by_category, risk_summary, urgent_actions, summary,
\* confidence_score; then invalid overall_risk_level, hazards_by_category not
\* a mapping, risk_summary not a mapping, invalid confidence_score,
\* urgent_actions not a sequence), is_valid is true iff it is empty, and a
\* second call on the same input gives element-wise equal errors.
C15_ErrorOrder ==
    /\ HasReport =>
          /\ OrderedErrors(ErrorsOf(Report))
          /\ ValidIffNoErrors(Report)
          /\ ErrorsOf(validate(analysis_result).value.kv) = ErrorsOf(Report)
    /\ HasSecondReport =>
          /\ OrderedErrors(ErrorsOf(SecondReport))
          /\ ValidIffNoErrors(SecondReport)

\* a report with a missing-field error followed by the errors for an invalid
\* overall_risk_level, an invalid confidence_score and an urgent_actions that
\* is no sequence, in that order
C15_Witness ==
    /\ HasReport
    /\ Len(ErrorsOf(Report)) >= 4
    /\ \E i, j, k, l \in 1..Len(ErrorsOf(Report)) :
          /\ i < j /\ j < k /\ k < l
          /\ ErrorsOf(Report)[i] = MissingError("summary")
          /\ ValueError("overall_risk_level", ErrorsOf(Report)[j])
          /\ ValueError("confidence_score", ErrorsOf(Report)[k])
          /\ ValueError("urgent_actions", ErrorsOf(Report)[l])
    /\ IsValidOf(Report) = B(FALSE)

====
